---- MODULE Spec2Model ----
(***************************************************************************)
(* Model of the two automation scripts of DirCat:                          *)
(*   build-test.py  get_executable_paths, run_cmake_build_and_execute      *)
(*   release.py     module-level git check, create_tag, delete_tag, main   *)
(* Paths are strings; os.path.join, str.lower, str.endswith and            *)
(* dict.fromkeys are computed character by character as Python does.       *)
(***************************************************************************)
EXTENDS Integers, Sequences, FiniteSets, TLC

VARIABLES
    script,         \* which entry point runs: "get_executable_paths", "build-test", "release"
    platform,       \* sys.platform
    toolOnPath,     \* the external tool (cmake / git) is on the search path
    build_dir, target_name, generator, config, clean_build,  \* build-test.py arguments
    action, tag_name, message, push_commits,                 \* release.py arguments
    pc,             \* position in the script
    dirExists,      \* the build directory exists on disk
    artifacts,      \* the paths that exist on disk after the build
    paths,          \* get_executable_paths: `paths` after line 10 (before the suffix step)
    possible_execs, \* the list get_executable_paths returned
    exec_path,      \* run_cmake_build_and_execute: the path chosen on line 43
    current_branch, \* create_tag: result of get_current_branch()
    localTags, remoteTags, remoteBranchPushed,  \* git state
    fsOps,          \* history of file-system mutations
    calls,          \* history of external commands attempted, with outcome
    output,         \* history of messages printed
    exitStatus      \* process exit status, -1 while running

argvars == <<script, platform, toolOnPath, build_dir, target_name, generator,
             config, clean_build, action, tag_name, message, push_commits>>
buildvars == <<dirExists, artifacts, paths, possible_execs, exec_path>>
gitvars == <<current_branch, localTags, remoteTags, remoteBranchPushed>>
histvars == <<fsOps, calls, output, exitStatus>>
vars == <<argvars, pc, buildvars, gitvars, histvars>>

(***************************************************************************)
(* Bounds and input sets                                                   *)
(***************************************************************************)
MaxArtifacts == 2

Platforms == {"linux", "win32"}
BuildDirs == {"build", "", "out/", "C:"}
TargetNames == {"app", "", "/app", "app.EXE", "app.exe", "C:app"}
Configs == {"Debug", "Release", "CustomStage", "", "/abs", "MinSizeRel"}
Generators == {<<>>, <<"Ninja">>}
TagNames == {"v1", "v2"}
Messages == {<<>>, <<"">>, <<"msg">>}
Branches == {"", "main"}

(***************************************************************************)
(* Python str operations                                                   *)
(***************************************************************************)
UpperLetters == "ABCDEFGHIJKLMNOPQRSTUVWXYZ"
LowerLetters == "abcdefghijklmnopqrstuvwxyz"

Char(s, i) == SubSeq(s, i, i)

LowerChar(c) ==
    IF \E i \in 1..26 : Char(UpperLetters, i) = c
    THEN Char(LowerLetters, CHOOSE i \in 1..26 : Char(UpperLetters, i) = c)
    ELSE c

RECURSIVE lower(_)
lower(s) == IF s = "" THEN "" ELSE LowerChar(Char(s, 1)) \o lower(Tail(s))

startswith(s, prefix) ==
    Len(s) >= Len(prefix) /\ SubSeq(s, 1, Len(prefix)) = prefix

endswith(s, suffix) ==
    Len(s) >= Len(suffix) /\ SubSeq(s, Len(s) - Len(suffix) + 1, Len(s)) = suffix

(***************************************************************************)
(* os.path.join: posixpath.join on POSIX, ntpath.join on win32             *)
(***************************************************************************)
RECURSIVE posix_join(_, _)
posix_join(path, ps) ==
    IF ps = <<>> THEN path
    ELSE LET b == Head(ps)
             next == IF startswith(b, "/") THEN b
                     ELSE IF path = "" \/ endswith(path, "/") THEN path \o b
                     ELSE path \o "/" \o b
         IN posix_join(next, Tail(ps))

IsSep(c) == c = "\\" \/ c = "/"

\* ntpath.splitdrive for drive-letter paths ("X:rest"); UNC prefixes are
\* outside the enumerated inputs (no input starts with two separators).
nt_splitdrive(p) ==
    IF Len(p) >= 2 /\ Char(p, 2) = ":"
    THEN [drive |-> SubSeq(p, 1, 2), path |-> SubSeq(p, 3, Len(p))]
    ELSE [drive |-> "", path |-> p]

RECURSIVE nt_join_loop(_, _, _)
nt_join_loop(result_drive, result_path, ps) ==
    IF ps = <<>> THEN result_drive \o result_path
    ELSE LET p == nt_splitdrive(Head(ps))
             rest == Tail(ps)
             sepd == IF result_path # "" /\ ~IsSep(Char(result_path, Len(result_path)))
                     THEN result_path \o "\\" ELSE result_path
         IN IF p.path # "" /\ IsSep(Char(p.path, 1))
            THEN nt_join_loop(IF p.drive # "" \/ result_drive = "" THEN p.drive
                              ELSE result_drive, p.path, rest)
            ELSE IF p.drive # "" /\ p.drive # result_drive
            THEN IF lower(p.drive) # lower(result_drive)
                 THEN nt_join_loop(p.drive, p.path, rest)
                 ELSE nt_join_loop(p.drive, sepd \o p.path, rest)
            ELSE nt_join_loop(result_drive, sepd \o p.path, rest)

nt_join(path, ps) ==
    LET d == nt_splitdrive(path) IN nt_join_loop(d.drive, d.path, ps)

os_path_join(plat, comps) ==
    IF plat = "win32" THEN nt_join(Head(comps), Tail(comps))
    ELSE posix_join(Head(comps), Tail(comps))

(***************************************************************************)
(* build-test.py: get_executable_paths                                     *)
(***************************************************************************)
\* variant: one conventional label left out of the list
common_configs_short == <<"Debug", "Release", "MinSizeRel">>

common_configs == <<"Debug", "Release", "RelWithDebInfo", "MinSizeRel">>

\* variant: build dir root first, then the config subdir
initial_paths_swapped(plat, bd, tn, cfg) ==
    <<os_path_join(plat, <<bd, tn>>), os_path_join(plat, <<bd, cfg, tn>>)>>

\* line 7: config subdir first, then the build dir root
initial_paths(plat, bd, tn, cfg) ==
    <<os_path_join(plat, <<bd, cfg, tn>>), os_path_join(plat, <<bd, tn>>)>>

\* line 9: paths.extend(...) over common_configs
extend_paths(plat, bd, tn, ps) ==
    ps \o [i \in 1..Len(common_configs) |->
              os_path_join(plat, <<bd, common_configs[i], tn>>)]

\* dict.fromkeys(seq): keys in insertion order, a repeated key keeps its slot
RECURSIVE fromkeys(_, _)
fromkeys(keys, seq) ==
    IF seq = <<>> THEN keys
    ELSE fromkeys(IF \E i \in 1..Len(keys) : keys[i] = Head(seq)
                  THEN keys ELSE Append(keys, Head(seq)),
                  Tail(seq))

\* variant: a repeated path keeps its last occurrence instead of its first
RECURSIVE keep_last(_)
keep_last(ps) ==
    IF ps = <<>> THEN <<>>
    ELSE IF \E i \in 2..Len(ps) : ps[i] = Head(ps)
         THEN keep_last(Tail(ps)) ELSE <<Head(ps)>> \o keep_last(Tail(ps))

\* line 10: list(dict.fromkeys(paths))
dedup_paths(ps) == fromkeys(<<>>, ps)

\* variant: the suffix test without .lower()
add_exe_case_sensitive(p) == IF ~endswith(p, ".exe") THEN p \o ".exe" ELSE p

\* line 12, one element of the comprehension
add_exe(p) == IF ~endswith(lower(p), ".exe") THEN p \o ".exe" ELSE p

\* lines 11-12
platform_suffix(plat, ps) ==
    IF plat = "win32" THEN [i \in 1..Len(ps) |-> add_exe(ps[i])] ELSE ps

\* variant: line 10 left out, the list goes to the suffix step as built
paths_not_deduplicated(plat, bd, tn, cfg) ==
    extend_paths(plat, bd, tn, initial_paths(plat, bd, tn, cfg))

\* `paths` as it stands after line 10
paths_before_suffix(plat, bd, tn, cfg) ==
    dedup_paths(extend_paths(plat, bd, tn, initial_paths(plat, bd, tn, cfg)))

get_executable_paths(plat, bd, tn, cfg) ==
    platform_suffix(plat, paths_before_suffix(plat, bd, tn, cfg))

Range(seq) == {seq[i] : i \in 1..Len(seq)}

\* variant: the last existing candidate wins instead of the first
choose_exec_path_last(plat, bd, tn, cfg, execs, existing) ==
    IF \E i \in 1..Len(execs) : execs[i] \in existing
    THEN execs[CHOOSE i \in 1..Len(execs) :
                  /\ execs[i] \in existing
                  /\ \A j \in (i + 1)..Len(execs) : execs[j] \notin existing]
    ELSE IF execs # <<>> THEN execs[1]
    ELSE os_path_join(plat, <<bd, cfg, tn>>)

\* line 43: next((p for p in possible_execs if os.path.exists(p)), fallback)
choose_exec_path(plat, bd, tn, cfg, execs, existing) ==
    IF \E i \in 1..Len(execs) : execs[i] \in existing
    THEN execs[CHOOSE i \in 1..Len(execs) :
                  /\ execs[i] \in existing
                  /\ \A j \in 1..(i - 1) : execs[j] \notin existing]
    ELSE IF execs # <<>> THEN execs[1]
    ELSE os_path_join(plat, <<bd, cfg, tn>>)

(***************************************************************************)
(* Histories                                                               *)
(***************************************************************************)
Call(step, argv, outcome) == [step |-> step, argv |-> argv, outcome |-> outcome]
Msg(kind, detail) == [kind |-> kind, detail |-> detail]

Exit(status) == exitStatus' = status /\ pc' = "done"

(***************************************************************************)
(* Initial states                                                          *)
(***************************************************************************)
InitCommon ==
    /\ paths = <<>> /\ possible_execs = <<>> /\ exec_path = ""
    /\ artifacts = {}
    /\ current_branch = <<>>
    /\ remoteBranchPushed = FALSE
    /\ fsOps = <<>> /\ calls = <<>> /\ output = <<>>
    /\ exitStatus = -1

NoReleaseArgs ==
    /\ action = "" /\ tag_name = "" /\ message = <<>> /\ push_commits = FALSE
    /\ localTags = {} /\ remoteTags = {}

NoBuildArgs ==
    /\ platform = "linux"
    /\ build_dir = "" /\ target_name = "" /\ generator = <<>> /\ config = ""
    /\ clean_build = FALSE /\ dirExists = FALSE

\* a direct call get_executable_paths(build_dir, target_name, config)
InitResolver ==
    /\ script = "get_executable_paths"
    /\ platform \in Platforms
    /\ build_dir \in BuildDirs /\ target_name \in TargetNames /\ config \in Configs
    /\ generator = <<>> /\ clean_build = FALSE /\ dirExists = FALSE
    /\ toolOnPath = TRUE
    /\ NoReleaseArgs
    /\ pc = "call"

\* build-test.py lines 56-67
InitBuild ==
    /\ script = "build-test"
    /\ platform \in Platforms
    /\ build_dir \in BuildDirs /\ target_name \in TargetNames /\ config \in Configs
    /\ generator \in Generators /\ clean_build \in BOOLEAN
    /\ dirExists \in BOOLEAN
    /\ toolOnPath \in BOOLEAN
    /\ NoReleaseArgs
    /\ pc = "clean"

\* release.py, started with parsed arguments
InitRelease ==
    /\ script = "release"
    /\ toolOnPath \in BOOLEAN
    /\ action \in {"create", "delete"}
    /\ tag_name \in TagNames
    /\ message \in (IF action = "create" THEN Messages ELSE {<<>>})
    /\ push_commits \in (IF action = "create" THEN BOOLEAN ELSE {FALSE})
    /\ localTags \in SUBSET TagNames /\ remoteTags \in SUBSET TagNames
    /\ NoBuildArgs
    /\ pc = "gitcheck"

Init == InitCommon /\ (InitResolver \/ InitBuild \/ InitRelease)

(***************************************************************************)
(* get_executable_paths called on its own                                  *)
(***************************************************************************)
CallGetExecutablePaths ==
    /\ script = "get_executable_paths" /\ pc = "call"
    /\ paths' = paths_before_suffix(platform, build_dir, target_name, config)
    /\ possible_execs' = get_executable_paths(platform, build_dir, target_name, config)
    /\ pc' = "returned"
    /\ UNCHANGED <<argvars, dirExists, artifacts, exec_path, gitvars, histvars>>

(***************************************************************************)
(* build-test.py: run_cmake_build_and_execute                              *)
(***************************************************************************)
cmake_cmd == IF generator # <<>> /\ generator[1] # ""
             THEN <<"cmake", ".", "-G", generator[1]>> ELSE <<"cmake", ".">>
build_cmd == <<"cmake", "--build", build_dir, "--config", config, "--target", target_name>>

\* lines 20-23
Clean ==
    /\ script = "build-test" /\ pc = "clean"
    /\ IF clean_build
       THEN /\ fsOps' = Append(fsOps, "rmtree")
            /\ dirExists' = FALSE
       ELSE UNCHANGED <<fsOps, dirExists>>
    /\ pc' = "makedirs"
    /\ UNCHANGED <<argvars, artifacts, paths, possible_execs, exec_path, gitvars,
                   calls, output, exitStatus>>

\* line 24; os.makedirs("") raises FileNotFoundError, which nothing catches
MakeDirs ==
    /\ script = "build-test" /\ pc = "makedirs"
    /\ IF build_dir = ""
       THEN /\ output' = Append(output, Msg("Traceback", <<"FileNotFoundError">>))
            /\ Exit(1)
            /\ UNCHANGED <<fsOps, dirExists>>
       ELSE /\ fsOps' = Append(fsOps, "makedirs")
            /\ dirExists' = TRUE
            /\ pc' = "configure"
            /\ UNCHANGED <<output, exitStatus>>
    /\ UNCHANGED <<argvars, artifacts, paths, possible_execs, exec_path, gitvars, calls>>

\* variant: a failed configure is reported but the script goes on to build
Configure_no_exit ==
    /\ script = "build-test" /\ pc = "configure"
    /\ \E outcome \in (IF toolOnPath THEN {"ok", "failed"} ELSE {"notfound"}) :
          /\ calls' = Append(calls, Call("configure", cmake_cmd, outcome))
          /\ CASE outcome = "ok" ->
                    pc' = "build" /\ UNCHANGED <<output, exitStatus>>
               [] outcome = "failed" ->
                    /\ output' = Append(output, Msg("CMake config failed", <<>>))
                    /\ pc' = "build" /\ UNCHANGED exitStatus
               [] outcome = "notfound" ->
                    /\ output' = Append(output, Msg("Traceback", <<"FileNotFoundError">>))
                    /\ Exit(1)
    /\ UNCHANGED <<argvars, buildvars, gitvars, fsOps>>

\* lines 26-32; a missing cmake raises FileNotFoundError, which nothing catches
Configure ==
    /\ script = "build-test" /\ pc = "configure"
    /\ \E outcome \in (IF toolOnPath THEN {"ok", "failed"} ELSE {"notfound"}) :
          /\ calls' = Append(calls, Call("configure", cmake_cmd, outcome))
          /\ CASE outcome = "ok" ->
                    pc' = "build" /\ UNCHANGED <<output, exitStatus>>
               [] outcome = "failed" ->
                    /\ output' = Append(output, Msg("CMake config failed", <<>>))
                    /\ Exit(1)
               [] outcome = "notfound" ->
                    /\ output' = Append(output, Msg("Traceback", <<"FileNotFoundError">>))
                    /\ Exit(1)
    /\ UNCHANGED <<argvars, buildvars, gitvars, fsOps>>

\* lines 34-40; a successful build leaves artifacts at some candidate places
Build ==
    /\ script = "build-test" /\ pc = "build"
    /\ \E outcome \in {"ok", "failed"} :
          /\ calls' = Append(calls, Call("build", build_cmd, outcome))
          /\ IF outcome = "ok"
             THEN /\ \E made \in SUBSET Range(get_executable_paths(platform, build_dir,
                                                                   target_name, config)) :
                        /\ Cardinality(made) <= MaxArtifacts
                        /\ artifacts' = made
                  /\ pc' = "locate"
                  /\ UNCHANGED <<output, exitStatus>>
             ELSE /\ output' = Append(output, Msg("Build failed", <<>>))
                  /\ Exit(1)
                  /\ UNCHANGED artifacts
    /\ UNCHANGED <<argvars, dirExists, paths, possible_execs, exec_path, gitvars, fsOps>>

\* lines 42-43
Locate ==
    /\ script = "build-test" /\ pc = "locate"
    /\ paths' = paths_before_suffix(platform, build_dir, target_name, config)
    /\ possible_execs' = get_executable_paths(platform, build_dir, target_name, config)
    /\ exec_path' = choose_exec_path(platform, build_dir, target_name, config,
                                     possible_execs', artifacts)
    /\ pc' = "execute"
    /\ UNCHANGED <<argvars, dirExists, artifacts, gitvars, histvars>>

\* lines 45-54; an OSError other than FileNotFoundError is caught by nothing
Execute ==
    /\ script = "build-test" /\ pc = "execute"
    /\ \E outcome \in (IF exec_path \in artifacts THEN {"ok", "failed", "oserror"}
                       ELSE {"notfound"}) :
          /\ calls' = Append(calls, Call("execute", <<exec_path>>, outcome))
          /\ CASE outcome = "ok" ->
                    /\ output' = Append(output, Msg("Execution successful", <<>>))
                    /\ Exit(0)
               [] outcome = "failed" ->
                    /\ output' = Append(output, Msg("Execution failed", <<>>))
                    /\ Exit(1)
               [] outcome = "oserror" ->
                    /\ output' = Append(output, Msg("Traceback", <<"OSError">>))
                    /\ Exit(1)
               [] outcome = "notfound" ->
                    /\ output' = Append(output, Msg("Executable not found",
                                                    <<exec_path>> \o possible_execs))
                    /\ Exit(1)
    /\ UNCHANGED <<argvars, buildvars, gitvars, fsOps>>

(***************************************************************************)
(* release.py                                                              *)
(***************************************************************************)
\* lines 8-10: shutil.which("git") is None
GitCheck ==
    /\ script = "release" /\ pc = "gitcheck"
    /\ IF ~toolOnPath
       THEN /\ output' = Append(output, Msg("Error: git command not found", <<>>))
            /\ Exit(1)
       ELSE /\ pc' = "main"
            /\ UNCHANGED <<output, exitStatus>>
    /\ UNCHANGED <<argvars, buildvars, gitvars, fsOps, calls>>

\* lines 72-77: dispatch on the subcommand
Main ==
    /\ script = "release" /\ pc = "main"
    /\ pc' = IF action = "create" THEN "create_tag" ELSE "delete_tag"
    /\ UNCHANGED <<argvars, buildvars, gitvars, histvars>>

\* lines 23-29: default message, then the branch on push_commits
CreateTagMessage ==
    /\ script = "release" /\ pc = "create_tag"
    /\ message' = IF message = <<>> \/ message[1] = ""
                  THEN <<"Release " \o tag_name>> ELSE message
    /\ pc' = IF push_commits THEN "get_current_branch" ELSE "git_tag"
    /\ UNCHANGED <<script, platform, toolOnPath, build_dir, target_name, generator,
                   config, clean_build, action, tag_name, push_commits,
                   buildvars, gitvars, histvars>>

\* lines 12-20 and 30-35: a failing rev-parse returns None, and a falsy
\* branch only skips the push of the commits
GetCurrentBranch ==
    /\ script = "release" /\ pc = "get_current_branch"
    /\ \E outcome \in {"ok", "failed"} :
       \E out \in (IF outcome = "ok" THEN Branches ELSE {""}) :
          /\ calls' = Append(calls, Call("rev-parse",
                          <<"git", "rev-parse", "--abbrev-ref", "HEAD">>, outcome))
          /\ current_branch' = IF outcome = "ok" THEN <<out>> ELSE <<>>
          /\ IF outcome = "ok" /\ out # ""
             THEN /\ pc' = "push_commits"
                  /\ UNCHANGED output
             ELSE /\ pc' = "git_tag"
                  /\ output' =
                       (IF outcome = "failed"
                        THEN Append(output, Msg("Error getting current branch", <<>>))
                        ELSE output)
                       \o <<Msg("Could not determine current branch, skipping commit push.",
                                <<>>)>>
    /\ UNCHANGED <<argvars, buildvars, localTags, remoteTags, remoteBranchPushed,
                   fsOps, exitStatus>>

GitFailed == /\ output' = Append(output, Msg("Git command failed", <<>>))
             /\ Exit(1)

\* variant: subprocess.run without check=True, a failed push goes unnoticed
PushCommits_unchecked ==
    /\ script = "release" /\ pc = "push_commits"
    /\ \E outcome \in {"ok", "failed"} :
          /\ calls' = Append(calls, Call("push-commits",
                          <<"git", "push", "origin", current_branch[1]>>, outcome))
          /\ remoteBranchPushed' = (remoteBranchPushed \/ outcome = "ok")
          /\ pc' = "git_tag"
          /\ UNCHANGED <<output, exitStatus>>
    /\ UNCHANGED <<argvars, buildvars, current_branch, localTags, remoteTags, fsOps>>

\* line 33
PushCommits ==
    /\ script = "release" /\ pc = "push_commits"
    /\ \E outcome \in {"ok", "failed"} :
          /\ calls' = Append(calls, Call("push-commits",
                          <<"git", "push", "origin", current_branch[1]>>, outcome))
          /\ IF outcome = "ok"
             THEN /\ remoteBranchPushed' = TRUE
                  /\ pc' = "git_tag"
                  /\ UNCHANGED <<output, exitStatus>>
             ELSE /\ GitFailed
                  /\ UNCHANGED remoteBranchPushed
    /\ UNCHANGED <<argvars, buildvars, current_branch, localTags, remoteTags, fsOps>>

\* line 37; git refuses to create a tag that exists
GitTag ==
    /\ script = "release" /\ pc = "git_tag"
    /\ \E outcome \in (IF tag_name \in localTags THEN {"failed"} ELSE {"ok", "failed"}) :
          /\ calls' = Append(calls, Call("tag",
                          <<"git", "tag", "-a", tag_name, "-m", message[1]>>, outcome))
          /\ IF outcome = "ok"
             THEN /\ localTags' = localTags \cup {tag_name}
                  /\ pc' = "push_tag"
                  /\ UNCHANGED <<output, exitStatus>>
             ELSE /\ GitFailed
                  /\ UNCHANGED localTags
    /\ UNCHANGED <<argvars, buildvars, current_branch, remoteTags, remoteBranchPushed, fsOps>>

\* lines 38-40, then main returns and the process ends with status 0
PushTag ==
    /\ script = "release" /\ pc = "push_tag"
    /\ \E outcome \in {"ok", "failed"} :
          /\ calls' = Append(calls, Call("push-tag",
                          <<"git", "push", "origin", tag_name>>, outcome))
          /\ IF outcome = "ok"
             THEN /\ remoteTags' = remoteTags \cup {tag_name}
                  /\ output' = Append(output, Msg("Tag created and pushed", <<tag_name>>))
                  /\ Exit(0)
             ELSE /\ GitFailed
                  /\ UNCHANGED remoteTags
    /\ UNCHANGED <<argvars, buildvars, current_branch, localTags, remoteBranchPushed, fsOps>>

\* variant: subprocess.run without check=True, the local tag goes even when
\* the remote deletion failed
DeleteRemoteTag_unchecked ==
    /\ script = "release" /\ pc = "delete_tag"
    /\ \E outcome \in (IF tag_name \in remoteTags THEN {"ok", "failed"} ELSE {"failed"}) :
          /\ calls' = Append(calls, Call("delete-remote",
                          <<"git", "push", "--delete", "origin", tag_name>>, outcome))
          /\ remoteTags' = IF outcome = "ok" THEN remoteTags \ {tag_name} ELSE remoteTags
          /\ pc' = "delete_local"
          /\ UNCHANGED <<output, exitStatus>>
    /\ UNCHANGED <<argvars, buildvars, current_branch, localTags, remoteBranchPushed, fsOps>>

\* line 50; deleting a tag the remote does not have fails
DeleteRemoteTag ==
    /\ script = "release" /\ pc = "delete_tag"
    /\ \E outcome \in (IF tag_name \in remoteTags THEN {"ok", "failed"} ELSE {"failed"}) :
          /\ calls' = Append(calls, Call("delete-remote",
                          <<"git", "push", "--delete", "origin", tag_name>>, outcome))
          /\ IF outcome = "ok"
             THEN /\ remoteTags' = remoteTags \ {tag_name}
                  /\ pc' = "delete_local"
                  /\ UNCHANGED <<output, exitStatus>>
             ELSE /\ GitFailed
                  /\ UNCHANGED remoteTags
    /\ UNCHANGED <<argvars, buildvars, current_branch, localTags, remoteBranchPushed, fsOps>>

\* lines 51-53
DeleteLocalTag ==
    /\ script = "release" /\ pc = "delete_local"
    /\ \E outcome \in (IF tag_name \in localTags THEN {"ok", "failed"} ELSE {"failed"}) :
          /\ calls' = Append(calls, Call("delete-local",
                          <<"git", "tag", "--delete", tag_name>>, outcome))
          /\ IF outcome = "ok"
             THEN /\ localTags' = localTags \ {tag_name}
                  /\ output' = Append(output, Msg("Tag deleted", <<tag_name>>))
                  /\ Exit(0)
             ELSE /\ GitFailed
                  /\ UNCHANGED localTags
    /\ UNCHANGED <<argvars, buildvars, current_branch, remoteTags, remoteBranchPushed, fsOps>>

(***************************************************************************)
(* Specification                                                           *)
(***************************************************************************)
Next ==
    \/ CallGetExecutablePaths
    \/ Clean \/ MakeDirs \/ Configure \/ Build \/ Locate \/ Execute
    \/ GitCheck \/ Main \/ CreateTagMessage \/ GetCurrentBranch \/ PushCommits
    \/ GitTag \/ PushTag \/ DeleteRemoteTag \/ DeleteLocalTag

Spec == Init /\ [][Next]_vars

(***************************************************************************)
(* Properties                                                              *)
(***************************************************************************)
\* get_executable_paths has returned (called directly or from line 42)
Resolved ==
    \/ pc = "returned"
    \/ script = "build-test" /\ pc = "execute"
    \/ script = "build-test" /\ \E i \in 1..Len(calls) : calls[i].step = "execute"

Joined(comps) == os_path_join(platform, comps)

\* the six paths of lines 7-9, written out
SixPaths ==
    << Joined(<<build_dir, config, target_name>>),
       Joined(<<build_dir, target_name>>),
       Joined(<<build_dir, "Debug", target_name>>),
       Joined(<<build_dir, "Release", target_name>>),
       Joined(<<build_dir, "RelWithDebInfo", target_name>>),
       Joined(<<build_dir, "MinSizeRel", target_name>>) >>

NoDuplicates(seq) == \A i, j \in 1..Len(seq) : seq[i] = seq[j] => i = j

FirstIndex(seq, x) == CHOOSE i \in 1..Len(seq) :
                          seq[i] = x /\ \A j \in 1..(i - 1) : seq[j] # x

\* out is seq with every later repeat removed, first occurrences in order
IsFirstOccurrences(out, seq) ==
    /\ NoDuplicates(out)
    /\ Range(out) = Range(seq)
    /\ \A i, j \in 1..Len(out) :
          i < j => FirstIndex(seq, out[i]) < FirstIndex(seq, out[j])

\* C1: on a non-Windows platform get_executable_paths returns the six paths
\* config-subdir, root, Debug, Release, RelWithDebInfo, MinSizeRel with every
\* later repeat removed and first occurrences in order; for ("build", "app",
\* "Release") that is the five-element list of the end-to-end scenario.
C1_SixPathsDeduplicated ==
    (Resolved /\ platform = "linux") =>
        /\ IsFirstOccurrences(possible_execs, SixPaths)
        /\ (build_dir = "build" /\ target_name = "app" /\ config = "Release") =>
              possible_execs = <<"build/Release/app", "build/app", "build/Debug/app",
                                 "build/RelWithDebInfo/app", "build/MinSizeRel/app">>

C1_Witness ==
    /\ pc = "returned" /\ platform = "linux"
    /\ build_dir = "build" /\ target_name = "app" /\ config = "Release"
    /\ Len(possible_execs) = 5 /\ possible_execs[1] = "build/Release/app"

\* C2 as stated: for non-empty buildDir and targetName and every config, the
\* list before the suffix step starts with buildDir/config/targetName and
\* then buildDir/targetName.
C2_FirstTwoAlways ==
    (Resolved /\ build_dir # "" /\ target_name # "") =>
        /\ Len(paths) >= 2
        /\ paths[1] = Joined(<<build_dir, config, target_name>>)
        /\ paths[2] = Joined(<<build_dir, target_name>>)

\* C2 amended: the list before the suffix step always starts with
\* join(buildDir, config, targetName), and join(buildDir, targetName) is its
\* second element whenever the two strings differ.
C2_FirstTwoWhenDistinct ==
    (Resolved /\ build_dir # "" /\ target_name # "") =>
        /\ Len(paths) >= 1
        /\ paths[1] = Joined(<<build_dir, config, target_name>>)
        /\ Joined(<<build_dir, config, target_name>>) # Joined(<<build_dir, target_name>>)
              => /\ Len(paths) >= 2
                 /\ paths[2] = Joined(<<build_dir, target_name>>)

C2_Witness ==
    /\ pc = "returned" /\ build_dir = "out/" /\ target_name = "app.exe"
    /\ config = "CustomStage" /\ platform = "linux"
    /\ paths[1] = "out/CustomStage/app.exe" /\ paths[2] = "out/app.exe"

RECURSIVE Contains(_, _)
Contains(s, c) == s # "" /\ (Char(s, 1) = c \/ Contains(Tail(s), c))

HasSeparator(s) == Contains(s, "/") \/ (platform = "win32" /\ Contains(s, "\\"))
HasDrive(s) == platform = "win32" /\ Len(s) >= 2 /\ Char(s, 2) = ":"

\* C3 as stated: 4 entries before the suffix step for config "Debug", 5 for
\* config "CustomStage".
C3_FourAndFive ==
    (Resolved /\ build_dir # "" /\ target_name # "" /\ ~HasSeparator(target_name)) =>
        /\ config = "Debug" => Len(paths) = 4
        /\ config = "CustomStage" => Len(paths) = 5

\* C3 amended: 5 entries before the suffix step for config "Debug" (only the
\* repeated Debug path goes), 6 for config "CustomStage"; targetName has no
\* path separator and, on win32, no drive prefix.
C3_FiveAndSix ==
    (/\ Resolved /\ build_dir # "" /\ target_name # ""
     /\ ~HasSeparator(target_name) /\ ~HasDrive(target_name)) =>
        /\ config = "Debug" => Len(paths) = 5
        /\ config = "CustomStage" => Len(paths) = 6

C3_Witness ==
    /\ pc = "returned" /\ build_dir = "build" /\ target_name = "app"
    /\ config = "Debug" /\ Len(paths) = 5

EndsWithExeAnyCase(s) ==
    LET n == Len(s) IN
    /\ n >= 4
    /\ Char(s, n - 3) = "."
    /\ Char(s, n - 2) \in {"e", "E"}
    /\ Char(s, n - 1) \in {"x", "X"}
    /\ Char(s, n) \in {"e", "E"}

\* C4: on win32 every returned path ends in ".exe" in some letter case and a
\* candidate that already did is returned unchanged; on other platforms the
\* candidates are returned unchanged.
C4_ExeSuffix ==
    Resolved =>
        /\ Len(possible_execs) = Len(paths)
        /\ IF platform = "win32"
           THEN \A i \in 1..Len(paths) :
                   /\ EndsWithExeAnyCase(possible_execs[i])
                   /\ EndsWithExeAnyCase(paths[i]) => possible_execs[i] = paths[i]
           ELSE possible_execs = paths

C4_Witness ==
    /\ pc = "returned" /\ platform = "win32"
    /\ build_dir = "build" /\ target_name = "app.EXE" /\ config = "Debug"
    /\ possible_execs[2] = "build\\app.EXE"

\* C5: the returned list has no two equal paths, on either platform, also
\* after the ".exe" suffix step.
C5_NoDuplicatesReturned == Resolved => NoDuplicates(possible_execs)

C5_Witness ==
    /\ pc = "returned" /\ platform = "win32"
    /\ build_dir = "build" /\ target_name = "app" /\ config = "MinSizeRel"
    /\ Len(possible_execs) = 5
    /\ possible_execs[1] = "build\\MinSizeRel\\app.exe"

StepsAt(step) == {i \in 1..Len(calls) : calls[i].step = step}

\* every call that did not succeed is the last one, and the process has
\* ended with a non-zero status
FailedCallEndsRun(steps) ==
    \A i \in 1..Len(calls) :
        (calls[i].step \in steps /\ calls[i].outcome # "ok") =>
            /\ i = Len(calls)
            /\ pc = "done"
            /\ exitStatus \notin {-1, 0}

\* C6: configure, build and execute run in that order, each only after the
\* previous one exited zero, and a failure of any of them ends the process
\* with a non-zero status before any later step.
C6_ConfigureBuildExecuteGated ==
    script = "build-test" =>
        /\ Len(calls) <= 3
        /\ \A i \in 1..Len(calls) :
              /\ calls[i].step = <<"configure", "build", "execute">>[i]
              /\ i > 1 => calls[i - 1].outcome = "ok"
        /\ FailedCallEndsRun({"configure", "build", "execute"})
        /\ exitStatus = 0 => (Len(calls) = 3 /\ calls[3].outcome = "ok")

C6_Witness ==
    /\ script = "build-test" /\ toolOnPath
    /\ Len(calls) = 2 /\ calls[1].outcome = "ok" /\ calls[2].outcome = "failed"
    /\ pc = "done" /\ exitStatus = 1

\* C7 as stated: on both scripts, with the external tool absent from the
\* search path, the failure is reported and the process ends before any
\* other work: no directory deleted or created, no external command tried.
C7_ToolAbsentNoWork ==
    (script \in {"build-test", "release"} /\ ~toolOnPath) =>
        /\ fsOps = <<>>
        /\ calls = <<>>
        /\ pc = "done" => (exitStatus = 1 /\ output # <<>>)

Rank(step) ==
    CASE step = "rev-parse" -> 1
      [] step = "push-commits" -> 2
      [] step = "tag" -> 3
      [] step = "push-tag" -> 4
      [] OTHER -> 0

CreateOrdered ==
    /\ \A i \in 1..Len(calls) : Rank(calls[i].step) > 0
    /\ \A i, j \in 1..Len(calls) : i < j => Rank(calls[i].step) < Rank(calls[j].step)
    /\ ~push_commits => StepsAt("rev-parse") \cup StepsAt("push-commits") = {}
    /\ (push_commits /\ calls # <<>>) => calls[1].step = "rev-parse"
    /\ \A i \in StepsAt("push-tag") : i > 1 /\ calls[i - 1].step = "tag"

DeleteState ==
    (script = "release" /\ action = "delete") =>
        /\ Len(calls) <= 2
        /\ \A i \in 1..Len(calls) :
              /\ calls[i].step = <<"delete-remote", "delete-local">>[i]
              /\ i > 1 => calls[i - 1].outcome = "ok"
        /\ FailedCallEndsRun({"delete-remote", "delete-local"})
        /\ (calls # <<>> /\ calls[1].outcome = "ok") => tag_name \notin remoteTags

DeleteStep ==
    (script = "release" /\ action = "delete") =>
        /\ localTags' # localTags =>
              (calls # <<>> /\ calls[1].step = "delete-remote" /\ calls[1].outcome = "ok")
        /\ remoteTags' \subseteq remoteTags

\* C9: delete removes the remote tag first and tries the local tag only after
\* the remote deletion succeeded; a failed remote deletion leaves the local
\* tags as they were and exits non-zero; a failed local deletion exits
\* non-zero and the remote tag stays deleted.
C9_RemoteThenLocal == [](DeleteState) /\ [][DeleteStep]_vars

C9_Witness ==
    /\ script = "release" /\ action = "delete"
    /\ Len(calls) = 2 /\ calls[1].outcome = "ok" /\ calls[2].outcome = "failed"
    /\ tag_name \notin remoteTags
    /\ pc = "done" /\ exitStatus = 1

\* C10: the path executed after a successful build is an element of the list
\* get_executable_paths returned: the lowest-index candidate that exists, or
\* the first candidate when none exists; the list is never empty; when the
\* executed path does not exist the searched candidates are reported and the
\* process exits non-zero.
C10_ExecPathChosen ==
    /\ Resolved => possible_execs # <<>>
    /\ (script = "build-test" /\ Resolved) =>
          /\ calls[2].step = "build" /\ calls[2].outcome = "ok"
          /\ \E i \in 1..Len(possible_execs) :
                /\ exec_path = possible_execs[i]
                /\ \A j \in 1..(i - 1) : possible_execs[j] \notin artifacts
                /\ exec_path \in artifacts \/ i = 1
                /\ exec_path \notin artifacts => Range(possible_execs) \cap artifacts = {}
          /\ (Len(calls) = 3 /\ exec_path \notin artifacts) =>
                /\ exitStatus = 1
                /\ output[Len(output)].kind = "Executable not found"
                /\ Range(possible_execs) \subseteq Range(output[Len(output)].detail)

C10_Witness ==
    /\ script = "build-test" /\ pc = "done"
    /\ Cardinality(artifacts) = 2
    /\ exec_path \in artifacts
    /\ exec_path # possible_execs[1]
    /\ exec_path # possible_execs[Len(possible_execs)]
    /\ Len(calls) = 3

====
